---- MODULE Spec2Model ----
(***************************************************************************)
(* BSC proof-of-staked-authority prover:                                   *)
(*   modules/consensus/bsc/prover/src/lib.rs                               *)
(*                                                                         *)
(* Two state machines over one set of variables:                           *)
(*   SpecRot  - get_rotation_block, one loop iteration per step;           *)
(*   Spec     - BscPosProver::fetch_bsc_update (the spec's build_update),  *)
(*              one step per await point / code block.                     *)
(*                                                                         *)
(* u64 values are kept exactly, as four 16-bit limbs (least significant    *)
(* first), so that wrap-around at 2^64 is the real one.  Arithmetic that   *)
(* overflows panics when the crate is built with overflow checks (debug    *)
(* profile) and wraps otherwise (release profile): overflow_checks picks   *)
(* the build.                                                              *)
(***************************************************************************)
EXTENDS Integers, Sequences, FiniteSets, TLC

VARIABLES
    overflow_checks,        \* build profile: TRUE = arithmetic overflow panics
    attested_header,        \* argument: [number, extra_ok, source_hash, target_hash]
    validator_size,         \* argument (u64)
    epoch,                  \* argument (u64)
    fetch_val_set_change,   \* argument (bool)
    pc,                     \* position in the running function
    source_header,          \* local
    target_header,          \* local
    header,                 \* local of the ancestry walk
    epoch_header_ancestry,  \* local: Vec<CodecHeader>
    epoch_header_number,    \* local (u64)
    result,                 \* what the call returned
    fetch_log,              \* every fetch_header call issued, with its answer
    block,                  \* get_rotation_block: the `mut block` parameter
    rot_start,              \* get_rotation_block: the value block was called with
    rot_incs                \* get_rotation_block: executions of `block += 1`

vars == <<overflow_checks, attested_header, validator_size, epoch,
          fetch_val_set_change, pc, source_header, target_header, header,
          epoch_header_ancestry, epoch_header_number, result, fetch_log,
          block, rot_start, rot_incs>>

(***************************************************************************)
(* u64                                                                     *)
(***************************************************************************)
Base == 2^16

U64FromNat(n) == <<n % Base, (n \div Base) % Base, 0, 0>>

U64Zero == U64FromNat(0)

U64Max == <<Base - 1, Base - 1, Base - 1, Base - 1>>

U64Lt(a, b) ==
    IF a[4] # b[4] THEN a[4] < b[4]
    ELSE IF a[3] # b[3] THEN a[3] < b[3]
    ELSE IF a[2] # b[2] THEN a[2] < b[2]
    ELSE a[1] < b[1]

U64Le(a, b) == ~U64Lt(b, a)

\* a + k for 0 <= k < Base: the wrapped sum and whether it overflowed
U64AddSmall(a, k) ==
    LET s1 == a[1] + k
        s2 == a[2] + (s1 \div Base)
        s3 == a[3] + (s2 \div Base)
        s4 == a[4] + (s3 \div Base)
    IN  [val |-> <<s1 % Base, s2 % Base, s3 % Base, s4 % Base>>,
         ovf |-> s4 >= Base]

\* a - k for 0 <= k < Base: the wrapped difference and whether it underflowed
U64SubSmall(a, k) ==
    LET b1 == IF a[1] < k THEN 1 ELSE 0
        b2 == IF a[2] < b1 THEN 1 ELSE 0
        b3 == IF a[3] < b2 THEN 1 ELSE 0
        b4 == IF a[4] < b3 THEN 1 ELSE 0
    IN  [val |-> <<a[1] - k + b1 * Base, a[2] - b1 + b2 * Base,
                   a[3] - b2 + b3 * Base, a[4] - b3 + b4 * Base>>,
         ovf |-> b4 = 1]

\* a * k for 0 <= k < 2^15: the wrapped product and whether it overflowed
U64MulSmall(a, k) ==
    LET p1 == a[1] * k
        p2 == a[2] * k + (p1 \div Base)
        p3 == a[3] * k + (p2 \div Base)
        p4 == a[4] * k + (p3 \div Base)
    IN  [val |-> <<p1 % Base, p2 % Base, p3 % Base, p4 % Base>>,
         ovf |-> p4 >= Base]

\* a % m for 0 < m < 2^15, as a natural number
U64ModSmall(a, m) ==
    LET r1 == Base % m
        r2 == (r1 * r1) % m
        r3 == (r2 * r1) % m
    IN  ((a[1] % m) + (a[2] % m) * r1 + (a[3] % m) * r2 + (a[4] % m) * r3) % m

\* a / 2
U64Div2(a) ==
    <<(a[1] \div 2) + (a[2] % 2) * (Base \div 2),
      (a[2] \div 2) + (a[3] % 2) * (Base \div 2),
      (a[3] \div 2) + (a[4] % 2) * (Base \div 2),
      a[4] \div 2>>

(***************************************************************************)
(* Chain constants (crate bsc_verifier::primitives, imported at lib.rs:5)  *)
(***************************************************************************)
EPOCH_LENGTH == 200

\* the largest multiple of EPOCH_LENGTH below 2^64: 2^64 - 16
MaxBoundary == <<Base - 16, Base - 1, Base - 1, Base - 1>>

(***************************************************************************)
(* get_rotation_block                                                      *)
(***************************************************************************)
\* model bound: iterations past one epoch length the stepwise loop is followed
MaxExtra == 2

RotCap == EPOCH_LENGTH + MaxExtra

\* the loop's exit test, `block % EPOCH_LENGTH == (validator_size / 2)`
RotationReachedNoHalving(b, vs) ==
    U64FromNat(U64ModSmall(b, EPOCH_LENGTH)) = vs
RotationReached(b, vs) ==
    U64FromNat(U64ModSmall(b, EPOCH_LENGTH)) = U64Div2(vs)

\* one iteration of `loop { if .. { break } block += 1 }`
RotIter(b, vs, checks) ==
    IF RotationReached(b, vs) THEN [kind |-> "break", val |-> b]
    ELSE LET s == U64AddSmall(b, 1)
         IN  IF s.ovf /\ checks THEN [kind |-> "panic", val |-> b]
             ELSE [kind |-> "continue", val |-> s.val]

RotStarts == {U64Zero, U64FromNat(7), U64FromNat(1000), MaxBoundary, U64Max}

RotSizes == {U64FromNat(0), U64FromNat(1), U64FromNat(21), U64FromNat(40),
             U64FromNat(399), U64FromNat(400), U64Max}

\* a CodecHeader as the prover reads it: the hash it was fetched by, its
\* number as number.low_u64(), its parent_hash
DefaultHeader == [hash |-> 0, number |-> U64Zero, parent_hash |-> 0]

InitRot ==
    /\ overflow_checks \in BOOLEAN
    /\ validator_size \in RotSizes
    /\ block \in RotStarts
    /\ rot_start = block
    /\ rot_incs = 0
    /\ pc = "rot_loop"
    /\ result = "pending"
    /\ attested_header = [number |-> U64Zero, extra_ok |-> TRUE,
                          source_hash |-> 0, target_hash |-> 0]
    /\ epoch = U64Zero
    /\ fetch_val_set_change = FALSE
    /\ source_header = DefaultHeader
    /\ target_header = DefaultHeader
    /\ header = DefaultHeader
    /\ epoch_header_ancestry = <<>>
    /\ epoch_header_number = U64Zero
    /\ fetch_log = <<>>

\* lines 149-158, one loop iteration per step; `block` is returned at "rot_ret"
get_rotation_block ==
    /\ pc = "rot_loop"
    /\ rot_incs < RotCap
    /\ LET it == RotIter(block, validator_size, overflow_checks)
       IN  /\ block' = it.val
           /\ rot_incs' = IF it.kind = "continue" THEN rot_incs + 1 ELSE rot_incs
           /\ CASE it.kind = "break" -> pc' = "rot_ret" /\ result' = result
                [] it.kind = "panic" -> pc' = "done" /\ result' = "panic"
                [] OTHER -> pc' = "rot_loop" /\ result' = result
    /\ UNCHANGED <<overflow_checks, attested_header, validator_size, epoch,
                   fetch_val_set_change, source_header, target_header, header,
                   epoch_header_ancestry, epoch_header_number, fetch_log,
                   rot_start>>

NextRot == get_rotation_block

SpecRot == InitRot /\ [][NextRot]_vars

(***************************************************************************)
(* Header Source (the RPC node behind fetch_header) and the inputs         *)
(***************************************************************************)
Zero == 0                   \* H256::default()

\* model bound: source headers are answered up to this far above the boundary
MaxDelta == 3

\* model bound on the length the walk is followed to (covers every walk whose
\* numbers strictly decrease, and the first steps of one that does not)
MaxWalk == MaxDelta + 1

\* BoundedVec bound of BscClientUpdate::epoch_header_ancestry
\* (crate bsc_verifier::primitives; the model uses a small value)
MaxAncestry == 2

\* the largest epoch whose boundary fits in a u64: (2^64 - 16) / EPOCH_LENGTH
MaxEpoch == <<18350, 31457, 44564, 327>>

Epochs == {U64Zero, U64FromNat(5), MaxEpoch, U64AddSmall(MaxEpoch, 1).val}

ValidatorSizes == {U64FromNat(1), U64FromNat(6), U64FromNat(40), U64FromNat(400)}

SourceHashes == {Zero, 1}

TargetHashes == {Zero, 2}

\* the boundary of epoch ep, for enumerating header numbers around it
BoundaryOf(ep) == U64MulSmall(ep, EPOCH_LENGTH).val

NumbersAround(b) ==
    {U64AddSmall(b, d).val : d \in 0..MaxDelta}
        \cup (IF b = U64Zero THEN {} ELSE {U64SubSmall(b, 1).val})

\* the hash a header answered for request h names as its parent
ParentOf(h) == IF h >= 5 THEN 3 ELSE h + 1

Found(h, n) ==
    [kind |-> "some", header |-> [hash |-> h, number |-> n, parent_hash |-> ParentOf(h)]]

\* fetch_header: Err(_) from the transport, Ok(None), or Ok(Some(header))
Failures == {[kind |-> "err", header |-> DefaultHeader],
             [kind |-> "none", header |-> DefaultHeader]}

\* answers to a fetch by hash h, with a header number from ns
Answers(h, ns) == Failures \cup {Found(h, n) : n \in ns}

\* numbers the Header Source answers for the parent of a header numbered n:
\* the true parent (n - 1), a repeated number (n), or a number at or below
\* the boundary b
ParentNumbers(n, b) ==
    {n, b} \cup (IF n = U64Zero THEN {} ELSE {U64SubSmall(n, 1).val})
           \cup (IF b = U64Zero THEN {} ELSE {U64SubSmall(b, 1).val})

Init ==
    /\ overflow_checks \in BOOLEAN
    /\ epoch \in Epochs
    /\ validator_size \in ValidatorSizes
    /\ fetch_val_set_change \in BOOLEAN
    /\ attested_header \in
         {[number |-> U64AddSmall(BoundaryOf(epoch), d).val, extra_ok |-> TRUE,
           source_hash |-> sh, target_hash |-> th] :
              d \in 1..MaxDelta, sh \in SourceHashes, th \in TargetHashes}
         \cup {[number |-> U64AddSmall(BoundaryOf(epoch), 1).val, extra_ok |-> FALSE,
                source_hash |-> Zero, target_hash |-> Zero]}
    /\ pc = "parse"
    /\ result = "pending"
    /\ source_header = DefaultHeader
    /\ target_header = DefaultHeader
    /\ header = DefaultHeader
    /\ epoch_header_ancestry = <<>>
    /\ epoch_header_number = U64Zero
    /\ fetch_log = <<>>
    /\ block = U64Zero
    /\ rot_start = U64Zero
    /\ rot_incs = 0

Args == <<overflow_checks, attested_header, validator_size, epoch, fetch_val_set_change>>

RotVars == <<block, rot_start, rot_incs>>

\* `return Ok(None)` / `return Err(..)` / `Ok(Some(..))` / a panic / no return
Finish(r) == pc' = "done" /\ result' = r

\* lines 68-70: the test guarding `return Ok(None)`
VotesAbsentInverted(sh, th) == sh # Zero \/ th # Zero
VotesAbsentBoth(sh, th) == sh = Zero /\ th = Zero
VotesAbsent(sh, th) == sh = Zero \/ th = Zero

\* lines 62-70: parse_extra, the two vote hashes, the early return
ParseVotes ==
    /\ pc = "parse"
    /\ IF ~attested_header.extra_ok
         THEN Finish("MalformedHeader")
         ELSE IF VotesAbsent(attested_header.source_hash, attested_header.target_hash)
                THEN Finish("NoUpdateYet")
                ELSE pc' = "fetch_source" /\ result' = result
    /\ UNCHANGED <<Args, RotVars, source_header, target_header, header,
                   epoch_header_ancestry, epoch_header_number, fetch_log>>

\* `.await?.ok_or_else(..)?`: does the answer make the call return an error
FetchFailedOnlyOnErr(ans) == ans.kind = "err"
FetchFailed(ans) == ans.kind # "some"

Logged(h, ans) == Append(fetch_log, [hash |-> h, answer |-> ans])

\* lines 72-75
FetchSourceHeader ==
    /\ pc = "fetch_source"
    /\ \E ans \in Answers(attested_header.source_hash, NumbersAround(BoundaryOf(epoch))) :
         /\ fetch_log' = Logged(attested_header.source_hash, ans)
         /\ IF FetchFailed(ans)
              THEN Finish("HeaderUnavailable") /\ source_header' = source_header
              ELSE pc' = "fetch_target" /\ result' = result
                   /\ source_header' = ans.header
    /\ UNCHANGED <<Args, RotVars, target_header, header, epoch_header_ancestry,
                   epoch_header_number>>

\* lines 76-79
FetchTargetHeader ==
    /\ pc = "fetch_target"
    /\ \E ans \in Answers(attested_header.target_hash,
                          {U64AddSmall(BoundaryOf(epoch), 1).val}) :
         /\ fetch_log' = Logged(attested_header.target_hash, ans)
         /\ IF FetchFailed(ans)
              THEN Finish("HeaderUnavailable") /\ target_header' = target_header
              ELSE pc' = "boundary" /\ result' = result
                   /\ target_header' = ans.header
    /\ UNCHANGED <<Args, RotVars, source_header, header, epoch_header_ancestry,
                   epoch_header_number>>

\* lines 86-92: the condition of the `if`, on the values the code computed
\* (ehn2 = epoch_header_number + 2, rot = rotation_block)
NeedAncestry(att, ehn, ehn2, rot, src, force) ==
    \/ (U64Le(ehn2, att) /\ U64Le(att, rot) /\ U64Lt(ehn, src))
    \/ (force /\ U64Lt(ehn, src))

\* line 82 and the call at line 85: epoch_header_number = epoch * EPOCH_LENGTH,
\* then get_rotation_block(epoch_header_number, validator_size) is entered
ComputeBoundary ==
    /\ pc = "boundary"
    /\ LET mul == U64MulSmall(epoch, EPOCH_LENGTH)
       IN  /\ epoch_header_number' = mul.val
           /\ IF mul.ovf /\ overflow_checks
                THEN Finish("panic") /\ UNCHANGED RotVars
                ELSE /\ pc' = "rot_loop" /\ result' = result
                     /\ block' = mul.val /\ rot_start' = mul.val /\ rot_incs' = 0
    /\ UNCHANGED <<Args, source_header, target_header, header,
                   epoch_header_ancestry, fetch_log>>

\* lines 85-93 once get_rotation_block has returned rb: the `- 1`, the `+ 2`
\* and the `if` condition.  "walk": the block at 94-105 is entered; "skip":
\* it is not; "panic": an arithmetic overflow with overflow checks on
Decide(checks, att, ehn, rb, force, src) ==
    LET sub == U64SubSmall(rb, 1)
        add == U64AddSmall(ehn, 2)
    IN  IF sub.ovf /\ checks THEN "panic"
        ELSE IF add.ovf /\ checks THEN "panic"
        ELSE IF NeedAncestry(att, ehn, add.val, sub.val, src, force) THEN "walk"
        ELSE "skip"

\* lines 85-93
DecideAncestry ==
    /\ pc = "rot_ret"
    /\ LET d == Decide(overflow_checks, attested_header.number, epoch_header_number,
                       block, fetch_val_set_change, source_header.number)
       IN  CASE d = "walk" -> pc' = "walk_first" /\ result' = result
             [] d = "skip" -> pc' = "assemble" /\ result' = result
             [] OTHER -> Finish("panic")
    /\ UNCHANGED <<Args, RotVars, source_header, target_header, header,
                   epoch_header_ancestry, epoch_header_number, fetch_log>>

\* `epoch_header_ancestry.insert(0, header.clone())`
InsertAtEnd(anc, h) == Append(anc, h)
InsertFront(anc, h) == <<h>> \o anc

\* lines 94-98
FetchFirstAncestor ==
    /\ pc = "walk_first"
    /\ \E ans \in Answers(source_header.parent_hash,
                          ParentNumbers(source_header.number, epoch_header_number)) :
         /\ fetch_log' = Logged(source_header.parent_hash, ans)
         /\ IF FetchFailed(ans)
              THEN Finish("HeaderUnavailable")
                   /\ UNCHANGED <<header, epoch_header_ancestry>>
              ELSE /\ pc' = "walk" /\ result' = result
                   /\ header' = ans.header
                   /\ epoch_header_ancestry' = InsertFront(epoch_header_ancestry, ans.header)
    /\ UNCHANGED <<Args, RotVars, source_header, target_header, epoch_header_number>>

\* line 99: the `while` condition
WalkContinuesInclusive(h, ehn) == U64Le(ehn, h.number)
WalkContinuesStopsEarly(h, ehn) == U64Lt(U64AddSmall(ehn, 1).val, h.number)
WalkContinues(h, ehn) == U64Lt(ehn, h.number)

\* lines 99-104: one iteration of the `while` loop
WalkAncestry ==
    /\ pc = "walk"
    /\ WalkContinues(header, epoch_header_number)
    /\ Len(epoch_header_ancestry) < MaxWalk
    /\ \E ans \in Answers(header.parent_hash,
                          ParentNumbers(header.number, epoch_header_number)) :
         /\ fetch_log' = Logged(header.parent_hash, ans)
         /\ IF FetchFailed(ans)
              THEN Finish("HeaderUnavailable")
                   /\ UNCHANGED <<header, epoch_header_ancestry>>
              ELSE /\ pc' = "walk" /\ result' = result
                   /\ header' = ans.header
                   /\ epoch_header_ancestry' = InsertFront(epoch_header_ancestry, ans.header)
    /\ UNCHANGED <<Args, RotVars, source_header, target_header, epoch_header_number>>

\* line 99: the `while` condition is false, the loop is left
WalkExit ==
    /\ pc = "walk"
    /\ ~WalkContinues(header, epoch_header_number)
    /\ pc' = "assemble"
    /\ UNCHANGED <<Args, RotVars, source_header, target_header, header,
                   epoch_header_ancestry, epoch_header_number, result, fetch_log>>

\* lines 114-116: Vec -> BoundedVec `try_into`, Err when the Vec is too long
TryIntoBounded(anc) ==
    IF Len(anc) <= MaxAncestry THEN [ok |-> TRUE, val |-> anc]
    ELSE [ok |-> FALSE, val |-> <<>>]

\* lines 107-119: what the call returns and the ancestry the update carries
AssembledTruncating(anc) ==
    [result |-> "Update",
     ancestry |-> SubSeq(anc, 1, IF Len(anc) <= MaxAncestry THEN Len(anc) ELSE MaxAncestry)]
Assembled(anc) ==
    IF TryIntoBounded(anc).ok
      THEN [result |-> "Update", ancestry |-> TryIntoBounded(anc).val]
      ELSE [result |-> "AncestryTooLarge", ancestry |-> anc]

\* lines 107-119
AssembleUpdate ==
    /\ pc = "assemble"
    /\ Finish(Assembled(epoch_header_ancestry).result)
    /\ epoch_header_ancestry' = Assembled(epoch_header_ancestry).ancestry
    /\ UNCHANGED <<Args, RotVars, source_header, target_header, header,
                   epoch_header_number, fetch_log>>

Next ==
    \/ ParseVotes
    \/ FetchSourceHeader
    \/ FetchTargetHeader
    \/ ComputeBoundary
    \/ get_rotation_block
    \/ DecideAncestry
    \/ FetchFirstAncestor
    \/ WalkAncestry
    \/ WalkExit
    \/ AssembleUpdate

Spec == Init /\ [][Next]_vars

\* the call is one asynchronous task polled to completion: whatever step is
\* possible is eventually taken
SpecLive == Spec /\ WF_vars(Next)

(***************************************************************************)
(* Vocabulary of the properties                                            *)
(***************************************************************************)
\* the call returned Ok(Some(update))
Returned == pc = "done" /\ result = "Update"

SourceHash == attested_header.source_hash

TargetHash == attested_header.target_hash

\* number of headers requested by the ancestry walk (fetches 1 and 2 are the
\* source and the target header)
WalkFetches == IF Len(fetch_log) > 2 THEN Len(fetch_log) - 2 ELSE 0

\* the header whose parent_hash was used for the i-th fetch (i >= 3)
ChildOf(i) == IF i = 3 THEN source_header ELSE fetch_log[i - 1].answer.header

\* every header the walk was given is numbered one less than its child
WellFormedSource ==
    \A i \in 3..Len(fetch_log) :
        fetch_log[i].answer.kind = "some" =>
            U64AddSmall(fetch_log[i].answer.header.number, 1) =
                [val |-> ChildOf(i).number, ovf |-> FALSE]

\* every header the walk was given is numbered below its child
StrictlyDecreasing ==
    \A i \in 3..Len(fetch_log) :
        fetch_log[i].answer.kind = "some" =>
            U64Lt(fetch_log[i].answer.header.number, ChildOf(i).number)

\* the walked headers, oldest request last, i.e. in the order insert(0, _)
\* leaves them
WalkedHeaders ==
    [i \in 1..WalkFetches |-> fetch_log[Len(fetch_log) + 1 - i].answer.header]

IsBoundary(b) == U64ModSmall(b, EPOCH_LENGTH) = 0

AtRotationResidue(b, vs) == U64FromNat(U64ModSmall(b, EPOCH_LENGTH)) = U64Div2(vs)

\* a u64 below 2^31 as a natural number
U64ToNat(a) == a[1] + a[2] * Base

(***************************************************************************)
(* C1  (SpecRot)                                                           *)
(***************************************************************************)
\* validator_size / 2 is a residue of EPOCH_LENGTH and rot_start + it fits a u64
C1_Domain ==
    /\ pc \in {"rot_loop", "rot_ret", "done"}
    /\ IsBoundary(rot_start)
    /\ U64Lt(U64Div2(validator_size), U64FromNat(EPOCH_LENGTH))
    /\ ~U64AddSmall(rot_start, U64ToNat(U64Div2(validator_size))).ovf

C1_Post ==
    /\ AtRotationResidue(block, validator_size)
    /\ U64Le(rot_start, block)
    /\ block = U64AddSmall(rot_start, rot_incs).val
    /\ \A k \in 0..(rot_incs - 1) :
          ~AtRotationResidue(U64AddSmall(rot_start, k).val, validator_size)

\* C1 as stated: for every epoch boundary e and every validator_set_size the
\* call returns (it does not panic) the smallest b >= e with
\* b % EPOCH_LENGTH == validator_set_size / 2.
C1_Original ==
    (pc \in {"rot_loop", "rot_ret", "done"} /\ IsBoundary(rot_start)) =>
        /\ result # "panic"
        /\ pc = "rot_ret" => C1_Post

\* C1 (amended): for every epoch boundary e and every validator_set_size with
\* validator_set_size / 2 < EPOCH_LENGTH and e + validator_set_size / 2 <=
\* u64::MAX, get_rotation_block never panics, and the value b it returns has
\* b % EPOCH_LENGTH == validator_set_size / 2, b >= e and no smaller value
\* >= e has that residue; rotation_block(1000, 21) == 1010.
C1_RotationBlock ==
    C1_Domain =>
        /\ result # "panic"
        /\ rot_incs < EPOCH_LENGTH
        /\ pc = "rot_ret" => C1_Post
        /\ (pc = "rot_ret" /\ rot_start = U64FromNat(1000)
               /\ validator_size = U64FromNat(21)) => block = U64FromNat(1010)

C1_Witness ==
    /\ pc = "rot_ret"
    /\ rot_start = U64FromNat(1000)
    /\ validator_size = U64FromNat(21)
    /\ block = U64FromNat(1010)

(***************************************************************************)
(* C7  (SpecRot)                                                           *)
(***************************************************************************)
\* C7 as stated: get_rotation_block never fails, and its loop exits after at
\* most EPOCH_LENGTH - 1 increments of the block number, for every starting
\* block and every validator_set_size.
C7_Original ==
    pc \in {"rot_loop", "rot_ret", "done"} =>
        /\ result # "panic"
        /\ rot_incs <= EPOCH_LENGTH - 1

(***************************************************************************)
(* C2                                                                      *)
(***************************************************************************)
\* C2: when the attested header's vote data parses with source_hash and
\* target_hash both zero, the call returns NoUpdateYet, whatever the other
\* arguments and the Header Source; no header fetch is issued and no error
\* is returned.
C2_NoUpdateOnZeroVotes ==
    (attested_header.extra_ok /\ SourceHash = Zero /\ TargetHash = Zero) =>
        /\ fetch_log = <<>>
        /\ pc \in {"parse", "done"}
        /\ pc = "done" => result = "NoUpdateYet"

C2_Witness ==
    /\ pc = "done" /\ result = "NoUpdateYet"
    /\ attested_header.extra_ok /\ SourceHash = Zero /\ TargetHash = Zero
    /\ fetch_val_set_change

(***************************************************************************)
(* C8                                                                      *)
(***************************************************************************)
\* C8 as stated: NoUpdateYet is returned only when both vote hashes are zero.
C8_Original ==
    result = "NoUpdateYet" => (SourceHash = Zero /\ TargetHash = Zero)

\* C8 (amended): NoUpdateYet is returned only when at least one of
\* source_hash and target_hash is zero, and then (also when exactly one is
\* zero) without any fetch; when the vote data parses and both hashes are
\* non-zero the call fetches the source header, then the target header, by
\* hash, and never returns NoUpdateYet.
C8_NoUpdateOnlyOnZeroVote ==
    /\ result = "NoUpdateYet" => (SourceHash = Zero \/ TargetHash = Zero)
    /\ (attested_header.extra_ok /\ pc = "done"
            /\ (SourceHash = Zero \/ TargetHash = Zero)) =>
          (result = "NoUpdateYet" /\ fetch_log = <<>>)
    /\ (attested_header.extra_ok /\ pc # "parse"
            /\ SourceHash # Zero /\ TargetHash # Zero) =>
          /\ result # "NoUpdateYet"
          /\ pc # "fetch_source" => (Len(fetch_log) >= 1 /\ fetch_log[1].hash = SourceHash)
          /\ Len(fetch_log) >= 2 => fetch_log[2].hash = TargetHash

C8_Witness ==
    /\ pc = "done" /\ result = "NoUpdateYet"
    /\ SourceHash = Zero /\ TargetHash # Zero

(***************************************************************************)
(* C3                                                                      *)
(***************************************************************************)
\* C3 as stated: in a returned update with a non-empty ancestry the first
\* element's number is epoch_boundary_number + 1.
C3_Original ==
    (Returned /\ epoch_header_ancestry # <<>>) =>
        epoch_header_ancestry[1].number = U64AddSmall(epoch_header_number, 1).val

\* C3 (amended): in a returned update with a non-empty ancestry the first
\* element's number is at most epoch_boundary_number, and it is exactly
\* epoch_boundary_number when every walked header is numbered one less than
\* its child: the epoch boundary header is the first element of the ancestry.
C3_FirstIsBoundary ==
    (Returned /\ epoch_header_ancestry # <<>>) =>
        /\ U64Le(epoch_header_ancestry[1].number, epoch_header_number)
        /\ WellFormedSource => epoch_header_ancestry[1].number = epoch_header_number

C3_Witness ==
    /\ Returned
    /\ Len(epoch_header_ancestry) = 2
    /\ WellFormedSource
    /\ epoch_header_ancestry[1].number = epoch_header_number

(***************************************************************************)
(* C4                                                                      *)
(***************************************************************************)
\* C4: a returned update never carries more than the maximum number of
\* ancestry headers; a walk that collected more ends in AncestryTooLarge, and
\* a returned update carries every walked header (no truncation).
C4_AncestryBounded ==
    /\ Returned => Len(epoch_header_ancestry) <= MaxAncestry
    /\ (pc = "done" /\ result \in {"Update", "AncestryTooLarge"}) =>
          /\ (WalkFetches > MaxAncestry) <=> (result = "AncestryTooLarge")
          /\ result = "Update" => epoch_header_ancestry = WalkedHeaders

C4_Witness ==
    /\ pc = "done" /\ result = "AncestryTooLarge"
    /\ WalkFetches = MaxAncestry + 1

(***************************************************************************)
(* C5                                                                      *)
(***************************************************************************)
\* the `if` at lines 86-92 has been evaluated
C5_Decided ==
    \/ pc \in {"walk_first", "walk", "assemble"}
    \/ pc = "done" /\ result \in {"Update", "AncestryTooLarge"}
    \/ pc = "done" /\ result = "HeaderUnavailable" /\ Len(fetch_log) > 2

C5_Walked == pc = "walk_first" \/ Len(fetch_log) > 2

\* the claim's condition, with rotation = rotation_block - 1 over the integers
\* (attested <= rotation_block - 1 is attested < rotation_block)
C5_Condition ==
    /\ U64Lt(epoch_header_number, source_header.number)
    /\ \/ fetch_val_set_change
       \/ /\ U64Le(U64AddSmall(epoch_header_number, 2).val, attested_header.number)
          /\ U64Lt(attested_header.number, block)

\* the boundary and the rotation block were computed without wrapping
C5_NoWrap ==
    /\ ~U64MulSmall(epoch, EPOCH_LENGTH).ovf
    /\ U64Le(epoch_header_number, block)

\* C5 as stated: the walk is performed iff source_header.number >
\* epoch_boundary_number and (force_rotation_fetch or epoch_boundary_number + 2
\* <= attested_header.number <= rotation); otherwise no parent header is
\* fetched and the ancestry is empty.
C5_Original ==
    (C5_Decided /\ C5_NoWrap) =>
        /\ C5_Walked <=> C5_Condition
        /\ ~C5_Condition => (WalkFetches = 0 /\ epoch_header_ancestry = <<>>)

(***************************************************************************)
(* C6                                                                      *)
(***************************************************************************)
\* C6: a fetch answered not-found or failed (for the source header, the
\* target header or a walked header) is the last fetch of the call, which is
\* over with an error: no update, no NoUpdateYet, no further fetch, no retry.
C6_FetchFailureIsFinal ==
    \A i \in 1..Len(fetch_log) :
        fetch_log[i].answer.kind # "some" =>
            /\ i = Len(fetch_log)
            /\ pc = "done"
            /\ result = "HeaderUnavailable"

C6_Witness ==
    /\ pc = "done" /\ result = "HeaderUnavailable"
    /\ Len(fetch_log) >= 4
    /\ fetch_log[Len(fetch_log)].answer.kind = "none"

(***************************************************************************)
(* C9                                                                      *)
(***************************************************************************)
\* C9: in a returned update with a non-empty ancestry the last element is the
\* header fetched by source_header.parent_hash, every element is the header
\* fetched by its successor's parent_hash, and when every walked header is
\* numbered one less than its child the numbers ascend by one up to
\* source_header.number - 1.
C9_AncestryContiguous ==
    (Returned /\ epoch_header_ancestry # <<>>) =>
        LET a == epoch_header_ancestry
            n == Len(epoch_header_ancestry)
        IN  /\ a[n].hash = source_header.parent_hash
            /\ a[n] = fetch_log[3].answer.header
            /\ \A i \in 1..(n - 1) : a[i].hash = a[i + 1].parent_hash
            /\ WellFormedSource =>
                  /\ U64AddSmall(a[n].number, 1).val = source_header.number
                  /\ \A i \in 1..(n - 1) :
                        a[i + 1].number = U64AddSmall(a[i].number, 1).val

C9_Witness ==
    /\ Returned
    /\ Len(epoch_header_ancestry) = 2
    /\ epoch_header_ancestry[2].hash = source_header.parent_hash
    /\ epoch_header_ancestry[2].number = U64AddSmall(epoch_header_ancestry[1].number, 1).val
    /\ epoch_header_ancestry[1].hash = epoch_header_ancestry[2].parent_hash

(***************************************************************************)
(* C10  (SpecLive)                                                         *)
(***************************************************************************)
\* while the walked numbers strictly decrease, the walk has issued at most
\* source_header.number - epoch_header_number fetches
C10_WalkBound ==
    (WalkFetches > 0 /\ StrictlyDecreasing) =>
        LET top == U64AddSmall(epoch_header_number, WalkFetches)
        IN  ~top.ovf /\ U64Le(top.val, source_header.number)

\* C10: once the ancestry walk has started, and as long as every returned
\* header is numbered below its child, the walk issues at most
\* source_header.number - epoch_boundary_number fetches and the call reaches
\* a final result, an update or an error.
C10_WalkTerminates ==
    /\ [] C10_WalkBound
    /\ (pc \in {"walk_first", "walk"}) ~>
          \/ pc = "done" /\ result \in {"Update", "AncestryTooLarge", "HeaderUnavailable"}
          \/ ~StrictlyDecreasing

C10_Witness ==
    /\ Returned
    /\ StrictlyDecreasing
    /\ WalkFetches = 2
    /\ U64AddSmall(epoch_header_number, 2).val = source_header.number

(***************************************************************************)
(* C11                                                                     *)
(***************************************************************************)
\* C11 as stated: the boundary arithmetic stays inside the u64 range for
\* every epoch and validator_size: when line 82 is about to run,
\* epoch * EPOCH_LENGTH does not overflow; when get_rotation_block has
\* returned, its result - 1 does not underflow and epoch_header_number + 2
\* does not overflow.
C11_Original ==
    /\ pc = "boundary" => ~U64MulSmall(epoch, EPOCH_LENGTH).ovf
    /\ pc = "rot_ret" =>
          /\ ~U64SubSmall(block, 1).ovf
          /\ ~U64AddSmall(epoch_header_number, 2).ovf

====
